---- MODULE Spec2Model ----
(***************************************************************************)
(* Model of the repository nsf/rndgo:                                      *)
(*   - throttler.Throttler[T]  (src/throttler/throttler.go, lines 1-83)    *)
(*   - timelatch.TimeLatch     (src/timelatch/timelatch.go, and its later  *)
(*     revision in src/throttler/throttler.go, lines 85-271)               *)
(*                                                                         *)
(* The throttler is modelled as goroutines stepping through Push and       *)
(* resume, a sync.Mutex, time.Timer objects and a discrete clock.  One     *)
(* Tick is the resolution of the clock: timers count ticks down, and two   *)
(* acquisitions of the mutex never carry the same clock reading.           *)
(***************************************************************************)
EXTENDS Integers, Sequences, FiniteSets, TLC

\* ---------------------------------------------------------------- bounds
NumProducers == 2      \* goroutines that call Push
MaxPush == 3           \* Push calls made by the producers in one run
MaxTasks == 2          \* goroutine slots for `go t.resume()`
MaxTimers == 2         \* time.Timer objects alive at once
Window == 2            \* the duration given to New, in ticks
MaxT == 3              \* time.Time values of the latch are 0..MaxT
MaxChecks == 3         \* TriggeredAt calls recorded per latch
MaxDur == 2            \* time.Duration values of the latch are -MaxDur..MaxDur

Producers == {<<"p", i>> : i \in 1..NumProducers}
Tasks == {<<"r", i>> : i \in 1..MaxTasks}
Threads == Producers \cup Tasks
TimerIds == 1..MaxTimers
Times == 0..MaxT
Durs == (0 - MaxDur)..MaxDur
MaxTarget == MaxT + MaxDur
MaxSpan == Window * (MaxPush - 1)

VARIABLES
    mutex,        \* Throttler.mutex: Free or the goroutine holding it
    buffer,       \* Throttler.buffer: the elements of the slice
    bufArr,       \* Throttler.buffer: its backing array, NilArray for a nil slice
    heap,         \* the arrays allocated by append, each as long as its capacity
    resumeTimer,  \* Throttler.resumeTimer: NilTimer or a timer id
    timers,       \* the time.Timer objects: state of the countdown and of C
    pc,           \* position of every goroutine
    nested,       \* the goroutine is inside a Push called from the callback
    arg,          \* the v of the Push the goroutine is executing
    tm,           \* the timer a resume goroutine read at `<-t.resumeTimer.C`
    cbMayPush,    \* the callback given to New calls Push on the same Throttler
    calls,        \* history: the invocations of the callback, in order
    pushed,       \* history: the values of Push, in lock acquisition order
    handed,       \* history: the slice given to every invocation of the callback
    sinceRet,     \* clock: ticks since the last callback returned (saturating)
    sinceLock,    \* clock: 1 iff the clock moved since the last Lock
    span,         \* clock: ticks since the first Push took the lock (saturating),
                  \*        or Untimed in a run that does not measure it
    lastAt,       \* history: span at the latest Push that took the lock
    tl,           \* the TimeLatch: [before, t]
    tlNow0,       \* history: the now given to NewAt
    tlNows,       \* history: the now of every TriggeredAt call
    tlRes,        \* history: the result of every TriggeredAt call
    tlChanged,    \* history: the target was changed after NewAt
    tlLast        \* history: the latest call on the latch, its arguments, the
                  \*          latch before it and the value it returned

memVars == <<bufArr, heap, handed>>
thrVars == <<mutex, buffer, resumeTimer, timers, pc, nested, arg, tm, cbMayPush,
             calls, pushed, sinceRet, sinceLock, span, lastAt, memVars>>
tlVars == <<tl, tlNow0, tlNows, tlRes, tlChanged, tlLast>>
vars == <<thrVars, tlVars>>

Free == <<"free", 0>>
Untimed == 0 - 1
NilTimer == 0
NilArray == 0
FreeTimer == [st |-> "free", rem |-> 0]

\* ------------------------------------------------------------ sync.Mutex
\* Mutant: Lock never blocks.
MutexUnguarded(m, th) == TRUE

\* Mutant: a reentrant lock, which the goroutine holding it may take again.
MutexReentrant(m, th) == m = Free \/ m = th

\* Lock blocks until the mutex is unlocked; it is not reentrant.
MutexFree(m, th) == m = Free

\* Mutant: the Unlock is missing.
StillLocked(th) == th

\* Unlock leaves the mutex unlocked.
Unlocked(th) == Free

\* ------------------------------------------------------------ time.Timer
\* Mutant: the countdown is one tick short.
NewTimerShort(d) == [st |-> "armed", rem |-> d - 1]

\* time.NewTimer(d): a timer that sends on its channel C after d.
NewTimer(d) == [st |-> "armed", rem |-> d]

\* The garbage collector: a timer that neither the Throttler nor a goroutine
\* waiting in resume refers to is gone.
Referenced(k, rt, tmf, pcf) ==
    \/ rt = k
    \/ \E r \in Tasks : pcf[r] = "recv" /\ tmf[r] = k

FreshTimer(tmf, pcf) ==
    CHOOSE k \in TimerIds :
        /\ ~Referenced(k, NilTimer, tmf, pcf)
        /\ \A j \in TimerIds : ~Referenced(j, NilTimer, tmf, pcf) => k <= j

Collect(ts, rt, tmf, pcf) ==
    [k \in TimerIds |-> IF Referenced(k, rt, tmf, pcf) THEN ts[k] ELSE FreeTimer]

\* ------------------------------------------------------------- Throttler
\* Mutant: the test is inverted.
IsIdleInverted(rt) == rt # NilTimer

\* Mutant: the test is missing and every Push fires the callback.
AlwaysIdle(rt) == TRUE

\* t.resumeTimer == nil
IsIdle(rt) == rt = NilTimer

\* Mutant: the test always fails and every expiry clears the timer.
HasValuesNever(buf) == FALSE

\* Mutant: the test is missing and every expiry fires the callback.
HasValuesAlways(buf) == TRUE

\* len(t.buffer) != 0
HasValues(buf) == Len(buf) # 0

\* Mutant: the value is put in front of the buffer.
PrependValue(buf, v) == <<v>> \o buf

\* append(t.buffer, v)
AppendValue(buf, v) == Append(buf, v)

\* The zero value of T, in the cells of an array past the length of the slice.
Zero == 0

\* append: the capacity of the array allocated when the old one is full
\* (growslice doubles a small slice).
GrowCap(cap) == IF cap = 0 THEN 1 ELSE 2 * cap

Cap(h, a) == IF a = NilArray THEN 0 ELSE Len(h[a])

\* append(t.buffer, v) writes in place while the capacity allows it.
InPlace(h, a, n) == n < Cap(h, a)

\* append(t.buffer, v): the backing array of the result
AppendArray(h, a, n) == IF InPlace(h, a, n) THEN a ELSE Len(h) + 1

\* append(t.buffer, v): the arrays after the call; a full slice is copied
\* into a new array.
AppendHeap(h, a, n, v) ==
    IF InPlace(h, a, n)
    THEN [h EXCEPT ![a][n + 1] = v]
    ELSE Append(h, [i \in 1..GrowCap(Cap(h, a)) |->
                      IF i <= n THEN h[a][i] ELSE IF i = n + 1 THEN v ELSE Zero])

\* The slice as the callback receives it: the array and the length.
Slice(a, n) == [arr |-> a, len |-> n]

\* The elements a slice shows now.
Elements(h, sl) == SubSeq(h[sl.arr], 1, sl.len)

\* Mutant: the buffer is not truncated.
KeepBuffer(buf) == buf

\* t.buffer[:0]
Truncate(buf) == SubSeq(buf, 1, 0)

\* Mutant: the timer is not cleared.
KeptTimer(rt) == rt

\* t.resumeTimer = nil
ClearedTimer(rt) == NilTimer

\* The goroutine is executing Push (its own, or one called from the callback).
InPush(th) == th \in Producers \/ nested[th]

\* t.callback(t.buffer): the invocation as the callback sees it
Invocation(th, buf, gap, n) ==
    [batch |-> buf, by |-> IF InPush(th) THEN "Push" ELSE "resume", gap |-> gap, at |-> n]

NumCalls == Len(pushed) + Cardinality({p \in Producers : pc[p] = "plock" /\ ~nested[p]})

FreeTasks == {r \in Tasks : pc[r] = "none"}
NewTask == CHOOSE r \in FreeTasks : \A q \in FreeTasks : r[2] <= q[2]

\* ------------------------------------------------------------- TimeLatch
\* now.Before(t)
Before(a, b) == a < b

\* NewAt(t, now)
NewAt(t, now) == [before |-> Before(now, t), t |-> t]

\* TriggeredAt(now): the latch after the call
TriggeredAtState(trig, now) == [trig EXCEPT !.before = Before(now, trig.t)]

\* Mutant: level-triggered, the previous comparison is ignored.
LevelResult(wasBefore, nowBefore) == ~nowBefore

\* TriggeredAt(now): `return wasBefore && !trig.before`
EdgeResult(wasBefore, nowBefore) == wasBefore /\ ~nowBefore

\* TriggeredAt(now): the value returned
TriggeredAtResult(trig, now) ==
    EdgeResult(trig.before, TriggeredAtState(trig, now).before)

\* SetTimeAt(t, now): the latch after the call
SetTimeAtState(trig, t, now) == [before |-> Before(now, t), t |-> t]

\* SetTimeAt(t, now): `return trig.before`
SetTimeAtResult(trig, t, now) == SetTimeAtState(trig, t, now).before

\* AddAt(d, now): `return trig.SetTimeAt(trig.t.Add(d), now)`
AddAtState(trig, d, now) == SetTimeAtState(trig, trig.t + d, now)

AddAtResult(trig, d, now) == SetTimeAtResult(trig, trig.t + d, now)

\* Mutant: the loop stops as soon as the target is not before now.
StrictlyPast(t, now) == Before(t, now)

\* AdvanceUntilFutureAt: the loop condition `!now.Before(trig.t)`
InPast(t, now) == ~Before(now, t)

RECURSIVE AdvanceTarget(_, _, _)
\* AdvanceUntilFutureAt: `for !now.Before(trig.t) { trig.t = trig.t.Add(dur) }`
AdvanceTarget(t, dur, now) ==
    IF InPast(t, now) THEN AdvanceTarget(t + dur, dur, now) ELSE t

\* AdvanceUntilFutureAt(dur, now): the latch after the call
AdvanceUntilFutureAtState(trig, dur, now) ==
    IF dur <= 0
    THEN trig
    ELSE [before |-> TRUE, t |-> AdvanceTarget(trig.t, dur, now)]

\* AdvanceUntilFutureAt(dur, now): the value returned
AdvanceUntilFutureAtResult(trig, dur, now) ==
    IF dur <= 0 THEN Before(now, trig.t) ELSE TRUE

RECURSIVE AddLoop(_, _, _)
\* `for !trig.AddAt(dur, now) {}`: the latch after the loop
AddLoop(trig, dur, now) ==
    IF AddAtResult(trig, dur, now)
    THEN AddAtState(trig, dur, now)
    ELSE AddLoop(AddAtState(trig, dur, now), dur, now)

\* The record of a call: its name, its duration or time argument, its now,
\* the latch before the call and the value returned.
Call(op, a, now, trig, ret) == [op |-> op, a |-> a, now |-> now, pre |-> trig, ret |-> ret]

ThrInit ==
    /\ mutex = Free
    /\ buffer = <<>>
    /\ resumeTimer = NilTimer
    /\ timers = [k \in TimerIds |-> FreeTimer]
    /\ pc = [th \in Threads |-> IF th \in Producers THEN "idle" ELSE "none"]
    /\ nested = [th \in Threads |-> FALSE]
    /\ arg = [th \in Threads |-> 0]
    /\ tm = [r \in Tasks |-> NilTimer]
    /\ calls = <<>>
    /\ pushed = <<>>
    /\ bufArr = NilArray
    /\ heap = <<>>
    /\ handed = <<>>
    /\ sinceRet = Window
    /\ sinceLock = 1
    /\ lastAt = 0

TlInitAt(t, now) ==
    /\ tl = NewAt(t, now)
    /\ tlNow0 = now
    /\ tlNows = <<>>
    /\ tlRes = <<>>
    /\ tlChanged = FALSE
    /\ tlLast = Call("NewAt", t, now, NewAt(t, now), FALSE)

\* New(dur, callback): the callback either never calls Push or may call it.
Init ==
    /\ ThrInit
    /\ span = 0
    /\ cbMayPush \in BOOLEAN
    /\ TlInitAt(0, 0)

\* ------------------------------------------------------------------ Push
\* A producer calls Push(v) and waits at t.mutex.Lock().  T is opaque to the
\* Throttler, so the n-th call of a run carries the value n: any other choice
\* of values is a renaming of this one.
PushCall(p) ==
    /\ p \in Producers
    /\ pc[p] = "idle"
    /\ NumCalls < MaxPush
    /\ pc' = [pc EXCEPT ![p] = "plock"]
    /\ arg' = [arg EXCEPT ![p] = NumCalls + 1]
    /\ UNCHANGED <<mutex, buffer, resumeTimer, timers, nested, tm, cbMayPush,
                   calls, pushed, sinceRet, sinceLock, span, lastAt>>
    /\ UNCHANGED memVars
    /\ UNCHANGED tlVars

\* The callback calls Push(v) on the same Throttler, with a value of the
\* batch it was given, and waits at Lock.
CallbackPush(th, v) ==
    /\ cbMayPush
    /\ pc[th] = "cb"
    /\ ~nested[th]
    /\ v = Head(buffer)
    /\ pc' = [pc EXCEPT ![th] = "plock"]
    /\ nested' = [nested EXCEPT ![th] = TRUE]
    /\ arg' = [arg EXCEPT ![th] = v]
    /\ UNCHANGED <<mutex, buffer, resumeTimer, timers, tm, cbMayPush,
                   calls, pushed, sinceRet, sinceLock, span, lastAt>>
    /\ UNCHANGED memVars
    /\ UNCHANGED tlVars

\* Push, lines 70-75 and 79-82: Lock, the test of resumeTimer, the append and,
\* when idle, the call of the callback.
PushLock(th) ==
    /\ pc[th] = "plock"
    /\ MutexFree(mutex, th)
    /\ sinceLock = 1
    /\ mutex' = th
    /\ sinceLock' = 0
    /\ pushed' = Append(pushed, arg[th])
    /\ lastAt' = IF pushed = <<>> \/ span = Untimed THEN 0 ELSE span
    /\ buffer' = AppendValue(buffer, arg[th])
    /\ heap' = AppendHeap(heap, bufArr, Len(buffer), arg[th])
    /\ bufArr' = AppendArray(heap, bufArr, Len(buffer))
    /\ IF IsIdle(resumeTimer)
       THEN /\ calls' = Append(calls, Invocation(th, buffer', sinceRet, Len(pushed')))
            /\ handed' = Append(handed, Slice(bufArr', Len(buffer')))
            /\ pc' = [pc EXCEPT ![th] = "cb"]
       ELSE /\ calls' = calls
            /\ handed' = handed
            /\ pc' = [pc EXCEPT ![th] = "unlock"]
    /\ UNCHANGED <<resumeTimer, timers, nested, arg, tm, cbMayPush, sinceRet, span>>
    /\ UNCHANGED tlVars

\* Lines 76-78 and 47-49: the callback has returned; truncate the buffer,
\* start a timer and spawn the goroutine that waits for it.
Rearm(th) ==
    /\ pc[th] = "cb"
    /\ FreeTasks # {}
    /\ \E k \in TimerIds : ~Referenced(k, NilTimer, tm, pc)
    /\ buffer' = Truncate(buffer)
    /\ resumeTimer' = FreshTimer(tm, pc)
    /\ timers' = [Collect(timers, resumeTimer', tm, pc)
                    EXCEPT ![resumeTimer'] = NewTimer(Window)]
    /\ pc' = [pc EXCEPT ![th] = "unlock", ![NewTask] = "start"]
    /\ sinceRet' = 0
    /\ UNCHANGED <<mutex, nested, arg, tm, cbMayPush, calls, pushed,
                   sinceLock, span, lastAt>>
    /\ UNCHANGED memVars
    /\ UNCHANGED tlVars

\* Push, lines 75-78: return of the callback called by Push.
PushCallbackReturn(th) ==
    /\ InPush(th)
    /\ Rearm(th)

\* Push, line 71: the deferred Unlock, and the return of Push.
PushUnlock(th) ==
    /\ InPush(th)
    /\ pc[th] = "unlock"
    /\ mutex' = Unlocked(th)
    /\ IF nested[th]
       THEN /\ pc' = [pc EXCEPT ![th] = "cb"]
            /\ nested' = [nested EXCEPT ![th] = FALSE]
       ELSE /\ pc' = [pc EXCEPT ![th] = "idle"]
            /\ nested' = nested
    /\ arg' = [arg EXCEPT ![th] = 0]
    /\ UNCHANGED <<buffer, resumeTimer, timers, tm, cbMayPush, calls, pushed,
                   sinceRet, sinceLock, span, lastAt>>
    /\ UNCHANGED memVars
    /\ UNCHANGED tlVars

\* ---------------------------------------------------------------- resume
\* resume, line 41: the goroutine starts and reads t.resumeTimer.
ResumeStart(r) ==
    /\ r \in Tasks
    /\ pc[r] = "start"
    /\ tm' = [tm EXCEPT ![r] = resumeTimer]
    /\ pc' = [pc EXCEPT ![r] = IF resumeTimer = NilTimer THEN "panic" ELSE "recv"]
    /\ UNCHANGED <<mutex, buffer, resumeTimer, timers, nested, arg, cbMayPush,
                   calls, pushed, sinceRet, sinceLock, span, lastAt>>
    /\ UNCHANGED memVars
    /\ UNCHANGED tlVars

\* resume, line 41: the receive from the channel of the expired timer.
ResumeRecv(r) ==
    /\ r \in Tasks
    /\ pc[r] = "recv"
    /\ timers[tm[r]].st = "fired"
    /\ pc' = [pc EXCEPT ![r] = "rlock"]
    /\ tm' = [tm EXCEPT ![r] = NilTimer]
    /\ timers' = Collect([timers EXCEPT ![tm[r]].st = "drained"], resumeTimer, tm', pc')
    /\ UNCHANGED <<mutex, buffer, resumeTimer, nested, arg, cbMayPush,
                   calls, pushed, sinceRet, sinceLock, span, lastAt>>
    /\ UNCHANGED memVars
    /\ UNCHANGED tlVars

\* resume, lines 42-46 and 50-53: Lock, the test of the buffer and either the
\* call of the callback or the clearing of the timer.
ResumeLock(r) ==
    /\ r \in Tasks
    /\ ~nested[r]
    /\ pc[r] = "rlock"
    /\ MutexFree(mutex, r)
    /\ sinceLock = 1
    /\ mutex' = r
    /\ sinceLock' = 0
    /\ IF HasValues(buffer)
       THEN /\ calls' = Append(calls, Invocation(r, buffer, sinceRet, Len(pushed)))
            /\ handed' = Append(handed, Slice(bufArr, Len(buffer)))
            /\ pc' = [pc EXCEPT ![r] = "cb"]
            /\ UNCHANGED <<resumeTimer, timers>>
       ELSE /\ calls' = calls
            /\ handed' = handed
            /\ pc' = [pc EXCEPT ![r] = "unlock"]
            /\ resumeTimer' = ClearedTimer(resumeTimer)
            /\ timers' = Collect(timers, resumeTimer', tm, pc')
    /\ UNCHANGED <<buffer, bufArr, heap, nested, arg, tm, cbMayPush, pushed,
                   sinceRet, span, lastAt>>
    /\ UNCHANGED tlVars

\* resume, lines 46-49: return of the callback called by resume.
ResumeCallbackReturn(r) ==
    /\ r \in Tasks
    /\ ~nested[r]
    /\ Rearm(r)

\* resume, line 43: the deferred Unlock; the goroutine ends.
ResumeUnlock(r) ==
    /\ r \in Tasks
    /\ ~nested[r]
    /\ pc[r] = "unlock"
    /\ mutex' = Unlocked(r)
    /\ pc' = [pc EXCEPT ![r] = "none"]
    /\ UNCHANGED <<buffer, resumeTimer, timers, nested, arg, tm, cbMayPush, calls,
                   pushed, sinceRet, sinceLock, span, lastAt>>
    /\ UNCHANGED memVars
    /\ UNCHANGED tlVars

\* ----------------------------------------------------------------- clock
\* One tick of the clock: armed timers count down and send on C at zero.
Tick ==
    /\ timers' = [k \in TimerIds |->
                    IF timers[k].st = "armed"
                    THEN IF timers[k].rem <= 1
                         THEN [st |-> "fired", rem |-> 0]
                         ELSE [st |-> "armed", rem |-> timers[k].rem - 1]
                    ELSE timers[k]]
    /\ sinceRet' = IF sinceRet < Window THEN sinceRet + 1 ELSE sinceRet
    /\ sinceLock' = 1
    /\ span' = IF span # Untimed /\ pushed # <<>> /\ span < MaxSpan THEN span + 1 ELSE span
    /\ UNCHANGED <<mutex, buffer, resumeTimer, pc, nested, arg, tm, cbMayPush,
                   calls, pushed, lastAt>>
    /\ UNCHANGED memVars
    /\ UNCHANGED tlVars

Next ==
    \/ \E p \in Producers : PushCall(p)
    \/ \E th \in Threads, v \in 1..MaxPush : CallbackPush(th, v)
    \/ \E th \in Threads : PushLock(th)
    \/ \E th \in Threads : PushCallbackReturn(th)
    \/ \E th \in Threads : PushUnlock(th)
    \/ \E r \in Tasks : ResumeStart(r)
    \/ \E r \in Tasks : ResumeRecv(r)
    \/ \E r \in Tasks : ResumeLock(r)
    \/ \E r \in Tasks : ResumeCallbackReturn(r)
    \/ \E r \in Tasks : ResumeUnlock(r)
    \/ Tick

Spec == Init /\ [][Next]_vars

\* The goroutine that holds the mutex keeps running (the callback returns),
\* the mutex does not starve a waiting Push (sync.Mutex hands over to a
\* starving waiter), and the clock moves.  Nothing is assumed about a resume
\* goroutine that does not hold the mutex: it may wait for its timer forever.
\* A step of the goroutine that holds the mutex, up to its Unlock.
HolderStep ==
    \/ \E th \in Threads : PushCallbackReturn(th)
    \/ \E th \in Threads : PushUnlock(th)
    \/ \E r \in Tasks : ResumeCallbackReturn(r)
    \/ \E r \in Tasks : ResumeUnlock(r)

LockFairness ==
    /\ WF_vars(Tick)
    /\ WF_vars(HolderStep)
    /\ \A p \in Producers : SF_vars(PushLock(p))

\* The runs of the liveness claims are not timed from the first Push: the
\* program takes the same steps, the stopwatch span stays off.
UntimedInit ==
    /\ ThrInit
    /\ span = Untimed
    /\ cbMayPush \in BOOLEAN
    /\ TlInitAt(0, 0)

LockFairSpec == UntimedInit /\ [][Next]_vars /\ LockFairness

\* Fair scheduling: in addition, a spawned resume goroutine gets to run and
\* receives from the channel of a timer that has fired, and the mutex starves
\* no waiter, the resume goroutine included.
ResumeStep ==
    \/ \E r \in Tasks : ResumeStart(r)
    \/ \E r \in Tasks : ResumeRecv(r)

Fairness ==
    /\ LockFairness
    /\ WF_vars(ResumeStep)
    /\ \A r \in Tasks : SF_vars(ResumeLock(r))

FairSpec == UntimedInit /\ [][Next]_vars /\ Fairness

\* ------------------------------------------------- TimeLatch, as a machine
LatchInit ==
    /\ ThrInit
    /\ span = 0
    /\ cbMayPush = FALSE
    /\ \E t \in Times, now \in Times : TlInitAt(t, now)

\* trig.TriggeredAt(now).  The calls are recorded while the target is the one
\* given to NewAt.
TriggeredAt(now) ==
    /\ tlChanged \/ Len(tlNows) < MaxChecks
    /\ tl' = TriggeredAtState(tl, now)
    /\ tlRes' = IF tlChanged THEN tlRes ELSE Append(tlRes, TriggeredAtResult(tl, now))
    /\ tlNows' = IF tlChanged THEN tlNows ELSE Append(tlNows, now)
    /\ tlLast' = Call("TriggeredAt", 0, now, tl, TriggeredAtResult(tl, now))
    /\ UNCHANGED <<tlNow0, tlChanged>>
    /\ UNCHANGED thrVars

\* A call that sets the target ends the record of the TriggeredAt calls.
Retarget ==
    /\ tlChanged' = TRUE
    /\ tlNow0' = 0
    /\ tlNows' = <<>>
    /\ tlRes' = <<>>

\* trig.SetTimeAt(t, now)
SetTimeAt(t, now) ==
    /\ tl' = SetTimeAtState(tl, t, now)
    /\ tlLast' = Call("SetTimeAt", t, now, tl, SetTimeAtResult(tl, t, now))
    /\ Retarget
    /\ UNCHANGED thrVars

\* trig.AddAt(d, now), while the target stays in the range of the model
AddAt(d, now) ==
    /\ tl.t + d \in 0..MaxTarget
    /\ tl' = AddAtState(tl, d, now)
    /\ tlLast' = Call("AddAt", d, now, tl, AddAtResult(tl, d, now))
    /\ Retarget
    /\ UNCHANGED thrVars

\* trig.AdvanceUntilFutureAt(dur, now)
AdvanceUntilFutureAt(dur, now) ==
    /\ tl' = AdvanceUntilFutureAtState(tl, dur, now)
    /\ tlLast' = Call("AdvanceUntilFutureAt", dur, now, tl,
                      AdvanceUntilFutureAtResult(tl, dur, now))
    /\ Retarget
    /\ UNCHANGED thrVars

LatchNext ==
    \/ \E now \in Times : TriggeredAt(now)
    \/ \E t \in Times, now \in Times : SetTimeAt(t, now)
    \/ \E d \in Durs, now \in Times : AddAt(d, now)
    \/ \E dur \in Durs, now \in Times : AdvanceUntilFutureAt(dur, now)

LatchSpec == LatchInit /\ [][LatchNext]_vars

\* ================================================================ claims
Last(q) == q[Len(q)]

RECURSIVE Concat(_)
\* the batches of a sequence of invocations, one after the other
Concat(cs) == IF cs = <<>> THEN <<>> ELSE Concat(SubSeq(cs, 1, Len(cs) - 1)) \o Last(cs).batch

CeilDiv(a, b) == (a + b - 1) \div b

\* A callback is being executed (or is stuck in a Push it called).
InCallback == \E th \in Threads : pc[th] = "cb" \/ nested[th]

\* The countdown of the Throttler's timer is running and set to the window.
Armed(ts, rt) == rt # NilTimer /\ ts[rt] = [st |-> "armed", rem |-> Window]

\* The Push that holds the mutex is the one that invoked the last callback.
LeadingEdgeOf(th) ==
    /\ mutex = th
    /\ calls # <<>>
    /\ Last(calls).by = "Push"
    /\ Last(calls).at = Len(pushed)

\* C1 -- Leading edge.  A Push(v) that takes the lock while resumeTimer is nil
\* invokes the callback in that same step, on its own goroutine and before it
\* returns, with the batch <<v>>; when that callback returns the buffer is
\* empty and a countdown of one window is running, and this is what the Push
\* leaves behind when it unlocks.
C1_LeadingEdgeStep ==
    \A th \in Threads :
        /\ (pc[th] = "plock" /\ pc'[th] # "plock" /\ resumeTimer = NilTimer) =>
              /\ Len(calls') = Len(calls) + 1
              /\ Last(calls').batch = <<arg[th]>>
              /\ Last(calls').by = "Push"
              /\ pc'[th] = "cb"
              /\ mutex' = th
        /\ (pc[th] = "cb" /\ InPush(th) /\ pc'[th] = "unlock") =>
              /\ calls' = calls
              /\ buffer' = <<>>
              /\ Armed(timers', resumeTimer')
        /\ (pc[th] = "unlock" /\ InPush(th) /\ LeadingEdgeOf(th) /\ pc'[th] # "unlock") =>
              /\ buffer' = <<>>
              /\ resumeTimer' # NilTimer
              /\ mutex' = Free

C1_LeadingEdge == [][C1_LeadingEdgeStep]_vars

\* C1 witness: a Push has fired the callback with its own value alone, the
\* callback has returned, and the Push is about to unlock.
C1_Witness ==
    \E p \in Producers :
        /\ pc[p] = "unlock"
        /\ LeadingEdgeOf(p)
        /\ Last(calls).batch = <<arg[p]>>
        /\ Len(calls) >= 2
        /\ buffer = <<>>
        /\ Armed(timers, resumeTimer)

\* The first three pushes all took the lock before the first expiry was handled.
InSuccession == Len(pushed) >= 3 /\ (Len(calls) >= 2 => calls[2].at >= 3)

\* C2 -- Coalescing at the trailing edge.  A resume goroutine that takes the
\* lock with a non-empty buffer invokes the callback once, with exactly the
\* values pushed since the previous invocation, in push order; when the
\* callback returns, the buffer is empty and a new countdown of one window runs.
\* Three pushes a, b, c in succession give the batches <<a>> and then <<b, c>>.
C2_TrailingStep ==
    \A r \in Tasks :
        /\ (pc[r] = "rlock" /\ ~nested[r] /\ pc'[r] # "rlock" /\ buffer # <<>>) =>
              /\ pc'[r] = "cb"
              /\ Len(calls') = Len(calls) + 1
              /\ SubSeq(calls', 1, Len(calls)) = calls
              /\ Last(calls').batch = buffer
              /\ calls # <<>>
              /\ Last(calls').batch = SubSeq(pushed, Last(calls).at + 1, Len(pushed))
              /\ resumeTimer' = resumeTimer
        /\ (pc[r] = "cb" /\ ~nested[r] /\ pc'[r] = "unlock") =>
              /\ calls' = calls
              /\ buffer' = <<>>
              /\ Armed(timers', resumeTimer')

C2_Succession ==
    InSuccession =>
        /\ calls[1].batch = <<pushed[1]>>
        /\ Len(calls) >= 2 => SubSeq(calls[2].batch, 1, 2) = <<pushed[2], pushed[3]>>
        /\ (Len(calls) >= 2 /\ calls[2].at = 3) => calls[2].batch = <<pushed[2], pushed[3]>>
        /\ Len(pushed) = 3 => Len(calls) <= 2

C2_Coalescing == [][C2_TrailingStep]_vars /\ []C2_Succession

\* C2 witness: a, b, c were pushed in succession and the callback got
\* <<a>> and then <<b, c>>; the second countdown is running.
C2_Witness ==
    /\ Len(pushed) = 3
    /\ Len(calls) = 2
    /\ calls[1].batch = <<pushed[1]>>
    /\ calls[2].batch = <<pushed[2], pushed[3]>>
    /\ calls[2].by = "resume"
    /\ mutex = Free
    /\ buffer = <<>>
    /\ Armed(timers, resumeTimer)

\* C3 -- Order and exactly-once delivery.  Whenever no callback is executing,
\* the batches delivered so far followed by the buffer are the pushed values in
\* lock acquisition order; while a callback is executing, the batches delivered
\* (this one included) are exactly the pushed values and the buffer still holds
\* the batch being delivered.
C3_ExactlyOnceInOrder ==
    IF InCallback
    THEN Concat(calls) = pushed /\ buffer = Last(calls).batch
    ELSE Concat(calls) \o buffer = pushed

\* C3 witness: after a leading-edge and a trailing-edge delivery a third,
\* different value waits in the buffer and both producers are back from Push.
C3_Witness ==
    /\ Len(calls) = 2
    /\ calls[2].by = "resume"
    /\ Len(buffer) = 1
    /\ calls[2].batch # buffer
    /\ calls[1].batch # calls[2].batch
    /\ mutex = Free
    /\ \A p \in Producers : pc[p] = "idle"

\* C4 -- Minimum spacing.  Every invocation of the callback but the first
\* starts at least one window after the previous invocation returned.
C4_MinimumSpacing == \A i \in 2..Len(calls) : calls[i].gap >= Window

\* C4 witness: a leading-edge invocation that follows an idle period, and a
\* trailing-edge one, both after an earlier invocation.
C4_Witness ==
    /\ Len(calls) = 3
    /\ calls[2].by = "resume"
    /\ calls[3].by = "Push"

C6_NonEmptyBatch == \A i \in 1..Len(calls) : Len(calls[i].batch) >= 1

\* C6 witness: the callback was invoked from Push and from resume, and a
\* resume goroutine has found the buffer empty.
C6_Witness ==
    /\ \E i \in 1..Len(calls) : calls[i].by = "Push"
    /\ \E i \in 1..Len(calls) : calls[i].by = "resume"
    /\ \E r \in Tasks : pc[r] = "unlock" /\ buffer = <<>> /\ resumeTimer = NilTimer

\* C7 -- Idle convergence.  A resume goroutine that takes the lock with an
\* empty buffer (no Push took the lock since the previous invocation) invokes
\* no callback, sets resumeTimer to nil and spawns no goroutine, neither then
\* nor when it unlocks; the Throttler is left idle with an empty buffer.
C7_IdleStep ==
    \A r \in Tasks :
        /\ (pc[r] = "rlock" /\ ~nested[r] /\ pc'[r] # "rlock") =>
              /\ (buffer = <<>>) <=> (calls # <<>> /\ Last(calls).at = Len(pushed))
        /\ (pc[r] = "rlock" /\ ~nested[r] /\ pc'[r] # "rlock" /\ buffer = <<>>) =>
              /\ calls' = calls
              /\ resumeTimer' = NilTimer
              /\ buffer' = <<>>
              /\ pc'[r] = "unlock"
              /\ \A q \in Tasks \ {r} : pc'[q] = pc[q]
              /\ \A k \in TimerIds : timers'[k].st # "armed"
        /\ (pc[r] = "unlock" /\ ~nested[r] /\ pc'[r] # "unlock" /\ resumeTimer = NilTimer) =>
              /\ calls' = calls
              /\ resumeTimer' = NilTimer
              /\ buffer' = <<>>
              /\ mutex' = Free
              /\ \A q \in Tasks : pc'[q] = "none"

C7_IdleConvergence == [][C7_IdleStep]_vars

\* C7 witness: after a window without a Push the Throttler is idle again: no
\* timer, no goroutine, one invocation.
C7_Witness ==
    /\ Len(calls) = 1
    /\ Len(pushed) = 1
    /\ resumeTimer = NilTimer
    /\ mutex = Free
    /\ \A q \in Tasks : pc[q] = "none"
    /\ \A p \in Producers : pc[p] = "idle"

\* The callback has called Push and waits for the mutex its own goroutine holds.
Reentered == \E th \in Threads : nested[th] /\ pc[th] = "plock" /\ mutex = th

\* C8 -- Reentrancy deadlock.  A Push called from the callback never takes the
\* lock; from then on the mutex is never released, no goroutine waiting for
\* it (in Push or in resume) ever gets it, and nothing is delivered any more.
C8_DeadlockStep ==
    Reentered =>
        /\ Reentered'
        /\ mutex' = mutex
        /\ \A th \in Threads : pc[th] \in {"plock", "rlock"} => pc'[th] = pc[th]
        /\ \A th \in Threads : pc'[th] \in {"cb", "unlock"} => pc[th] = pc'[th]
        /\ UNCHANGED <<buffer, calls, pushed, resumeTimer>>

C8_ReentrancyDeadlock ==
    /\ [][C8_DeadlockStep]_vars
    /\ [](\A th \in Threads : nested[th] => pc[th] = "plock" /\ mutex = th)

\* C8 witness: the callback run by the resume goroutine called Push, so this
\* expiry handler never finishes, and a producer waits for the mutex.
C8_Witness ==
    /\ \E r \in Tasks : nested[r] /\ pc[r] = "plock" /\ mutex = r
    /\ \E p \in Producers : ~nested[p] /\ pc[p] = "plock"

\* C9 -- Push progress.  If the callback never calls Push, every Push that is
\* waiting for the lock returns, whatever the timers and the resume goroutines
\* waiting for them do.
C9_PushProgress ==
    \A p \in Producers : (~cbMayPush /\ pc[p] = "plock") ~> (pc[p] = "idle")

\* C9 witness: a Push has returned while the countdown is still running and
\* its value waits in the buffer; another Push waits for the lock.
C9_Witness ==
    /\ ~cbMayPush
    /\ \E p \in Producers : pc[p] = "idle" /\ Len(buffer) >= 1
    /\ \E p \in Producers : pc[p] = "plock"
    /\ resumeTimer # NilTimer
    /\ timers[resumeTimer].st = "armed"
    /\ mutex = Free

NonDecreasing(q) == \A i \in 1..Len(q) - 1 : q[i] <= q[i + 1]

\* C10 -- TimeLatch edge trigger.  For a latch made by NewAt(t, now0) with
\* now0 < t whose target was not changed, and TriggeredAt calls with
\* non-decreasing now: a call returns true iff its now is >= t and the now of
\* every earlier call was < t.
C10_EdgeTrigger ==
    (~tlChanged /\ tlNow0 < tl.t /\ NonDecreasing(tlNows)) =>
        \A i \in 1..Len(tlRes) :
            tlRes[i] = (tlNows[i] >= tl.t /\ \A j \in 1..(i - 1) : tlNows[j] < tl.t)

\* C10 witness: false before the target, true on the first call whose now has
\* skipped past the target, false after it.
C10_Witness ==
    /\ ~tlChanged
    /\ tlNow0 < tl.t
    /\ NonDecreasing(tlNows)
    /\ Len(tlRes) = 3
    /\ tlNows[1] < tl.t
    /\ tlNows[2] > tl.t
    /\ tlRes = <<FALSE, TRUE, FALSE>>

\* C11 -- TimeLatch is one-shot.  While the target is the one given to NewAt,
\* no TriggeredAt call returns true after an earlier call has returned true,
\* whatever the now of the calls.
C11_OneShot ==
    ~tlChanged =>
        \A i \in 1..Len(tlRes) : \A j \in (i + 1)..Len(tlRes) : tlRes[i] => ~tlRes[j]

C13_LoopEquivalence ==
    (tlLast.op = "AdvanceUntilFutureAt" /\ tlLast.a > 0) =>
        tl = AddLoop(tlLast.pre, tlLast.a, tlLast.now)

\* C14 -- AdvanceUntilFutureAt(dur, now) with dur <= 0 changes neither the
\* target nor the flag, and returns false.
C14_Degenerate ==
    (tlLast.op = "AdvanceUntilFutureAt" /\ tlLast.a <= 0) =>
        /\ tl = tlLast.pre
        /\ ~tlLast.ret

\* The resume goroutines that wait: about to read the timer, waiting for its
\* expiry, or waiting for the mutex.
Pending == {r \in Tasks : pc[r] \in {"start", "recv", "rlock"}}

\* The resume goroutines that wait or handle an expiry under the mutex, up to
\* the re-arm or the clearing of resumeTimer.
Handling == Pending \cup {r \in Tasks : pc[r] = "cb" \/ nested[r]}

Countdowns == {k \in TimerIds : timers[k].st # "free"}

\* A step that spawns a resume goroutine is the end of a callback run under
\* the mutex, by a Push that found resumeTimer nil or by a resume goroutine,
\* and it arms the timer the new goroutine waits for.
C15_SpawnStep ==
    \A r \in Tasks :
        (pc[r] = "none" /\ pc'[r] # "none") =>
            /\ pc'[r] = "start"
            /\ Armed(timers', resumeTimer')
            /\ \E th \in Threads :
                  /\ mutex = th
                  /\ pc[th] = "cb"
                  /\ pc'[th] = "unlock"
                  /\ InPush(th) => IsIdle(resumeTimer)

\* A resume goroutine that flushes has consumed the expiry of the current
\* timer, and no other resume goroutine is left to handle that timer.
C15_FlushStep ==
    (Len(calls') > Len(calls) /\ Last(calls').by = "resume") =>
        /\ timers[resumeTimer].st = "drained"
        /\ Pending' = {}

\* C15 (as stated) -- at any time there is at most one countdown and at most
\* one pending resume goroutine, and resumeTimer is non-nil exactly when one
\* resume goroutine is pending: waiting for the expiry or for the mutex.
C15_PendingExactly ==
    /\ Cardinality(Countdowns) <= 1
    /\ Cardinality(Pending) <= 1
    /\ (resumeTimer # NilTimer) <=> (Cardinality(Pending) = 1)

\* C15 (amended) -- at any time there is at most one countdown and at most one
\* resume goroutine that waits or handles an expiry; resumeTimer is non-nil
\* exactly when there is one, and whenever the mutex is free that goroutine is
\* pending.  A resume goroutine is spawned only at the end of a callback, by a
\* Push that found resumeTimer nil or by a resume goroutine re-arming, and a
\* flush consumes the expiry of its timer and leaves no other goroutine for it.
C15_SingleTask ==
    /\ [](/\ Cardinality(Countdowns) <= 1
          /\ Cardinality(Handling) <= 1
          /\ (resumeTimer # NilTimer) <=> (Cardinality(Handling) = 1)
          /\ mutex = Free => Handling = Pending)
    /\ [][C15_SpawnStep /\ C15_FlushStep]_vars

\* C15 witness: a resume goroutine has flushed and re-armed; it still holds
\* the mutex while the goroutine it spawned is about to wait for the new timer.
C15_Witness ==
    /\ \E r \in Tasks : mutex = r /\ pc[r] = "unlock"
    /\ Cardinality(Pending) = 1
    /\ Armed(timers, resumeTimer)
    /\ calls # <<>>
    /\ Last(calls).by = "resume"

\* C16 -- a Push(v) that takes the mutex while resumeTimer is non-nil appends
\* v to the end of the buffer and does nothing else: no callback, no timer, no
\* goroutine, and resumeTimer stays non-nil; its Unlock changes none of these.
C16_ThrottledPushFrame ==
    [][\A th \in Threads :
          /\ (pc[th] = "plock" /\ pc'[th] # "plock" /\ resumeTimer # NilTimer) =>
                /\ buffer' = Append(buffer, arg[th])
                /\ pc' = [pc EXCEPT ![th] = "unlock"]
                /\ UNCHANGED <<calls, timers, resumeTimer, tm>>
          /\ (InPush(th) /\ pc[th] = "unlock" /\ pc'[th] # "unlock") =>
                /\ \A r \in Threads \ {th} : pc'[r] = pc[r]
                /\ UNCHANGED <<buffer, calls, timers, resumeTimer, tm>>]_vars

\* C16 witness: a Push took the mutex after the timer had fired and before the
\* resume goroutine could take it; its value is the last of the buffer and the
\* callback was not invoked for it.
C16_Witness ==
    \E p \in Producers :
        /\ mutex = p
        /\ pc[p] = "unlock"
        /\ resumeTimer # NilTimer
        /\ timers[resumeTimer].st \in {"fired", "drained"}
        /\ \E r \in Tasks : pc[r] \in {"recv", "rlock"}
        /\ buffer # <<>>
        /\ Last(buffer) = arg[p]
        /\ Last(calls).at < Len(pushed)

\* C17 -- whenever the mutex is free, a non-empty buffer implies an active
\* countdown (resumeTimer non-nil, with a resume goroutine pending for it);
\* equivalently, with resumeTimer nil the buffer is empty.
C17_BufferedImpliesCountdown ==
    mutex = Free =>
        /\ buffer # <<>> => (resumeTimer # NilTimer /\ Pending # {})
        /\ resumeTimer = NilTimer => buffer = <<>>

\* C17 witness: the mutex is free and no Push is in progress; two values wait
\* in the buffer for the countdown, which has not expired yet.
C17_Witness ==
    /\ mutex = Free
    /\ \A p \in Producers : pc[p] = "idle"
    /\ Len(buffer) = 2
    /\ resumeTimer # NilTimer
    /\ timers[resumeTimer].st = "armed"

\* The goroutines that are executing the callback (or are stuck in a Push the
\* callback called).
Executing == {th \in Threads : pc[th] = "cb" \/ nested[th]}

\* C20 -- callback invocations never overlap.  At any moment at most one
\* goroutine is executing the callback, and it holds the mutex; no step taken
\* while a callback is running appends to the buffer.
C20_NoOverlap ==
    /\ [](/\ Cardinality(Executing) <= 1
          /\ \A th \in Executing : mutex = th)
    /\ [][Executing # {} => Len(buffer') <= Len(buffer)]_vars

\* C20 witness: the resume goroutine is running the callback on a buffered
\* value while a producer waits in Push for the mutex.
C20_Witness ==
    /\ \E r \in Tasks : Executing = {r} /\ mutex = r
    /\ Last(calls).by = "resume"
    /\ \E p \in Producers : pc[p] = "plock"

\* The expiry handler that finds values takes the whole buffer: after its
\* step every value pushed before it took the mutex has been delivered.
C18_FirstExpiryStep ==
    \A r \in Tasks :
        (pc[r] = "rlock" /\ pc'[r] # "rlock" /\ buffer # <<>>) =>
            /\ Len(calls') = Len(calls) + 1
            /\ Last(calls').by = "resume"
            /\ Last(calls').batch = buffer
            /\ Concat(calls') = pushed

\* C18 -- eventual, bounded delivery.  With a callback that does not call
\* Push, under fair scheduling every value pushed is eventually passed to the
\* callback (after every moment comes one at which all the values pushed
\* until then have been delivered), and a value pushed during a throttling
\* period is delivered by the first expiry handler that runs after its Push.
C18_Delivery ==
    /\ ~cbMayPush => []<>(Concat(calls) = pushed)
    /\ [][~cbMayPush => C18_FirstExpiryStep]_vars

\* C18 witness: two values pushed during the throttling period were delivered
\* together by the expiry handler.
C18_Witness ==
    /\ ~cbMayPush
    /\ Len(calls) = 2
    /\ Last(calls).by = "resume"
    /\ Last(calls).batch = <<2, 3>>
    /\ Concat(calls) = <<1, 2, 3>>

\* Idle for good: no value buffered, no countdown, no resume goroutine, no
\* Push in progress.
Quiescent ==
    /\ mutex = Free
    /\ buffer = <<>>
    /\ resumeTimer = NilTimer
    /\ Countdowns = {}
    /\ \A r \in Tasks : pc[r] = "none"
    /\ \A p \in Producers : pc[p] = "idle"

\* C19 -- quiescence.  The Push calls of a run stop (the producers make a
\* bounded number of calls); with a callback that does not call Push, under
\* fair scheduling the Throttler then reaches the idle state, with an empty
\* buffer, no countdown and no resume goroutine, and stays in it.
C19_Quiescence == ~cbMayPush => <>[]Quiescent

\* C19 witness: after a leading-edge call and a trailing flush the re-arm
\* chain has ended and the Throttler is idle again.
C19_Witness ==
    /\ ~cbMayPush
    /\ Quiescent
    /\ Len(calls) >= 2
    /\ Last(calls).by = "resume"
    /\ Len(pushed) = MaxPush

\* C21 -- the batch a callback received is never changed afterwards.  The
\* slice given to an invocation shares no storage with the buffer, so at any
\* later moment it still shows the elements it showed when it was handed over,
\* whatever Push calls and flushes have happened since.
C21_BatchStable ==
    \A i \in 1..Len(calls) : Elements(heap, handed[i]) = calls[i].batch

====
